---------------------------- MODULE Spec2Model ----------------------------
(***************************************************************************)
(* Model of the query-processing pipeline of dealer-bot:                   *)
(*   app/llm/intent_classifier_agent.py   IntentClassifierAgent            *)
(*   app/security/anomaly_detection_agent.py  AnomalyDetectionAgent        *)
(*   app/core/rag_agent.py                RAGAgent                         *)
(*   app/llm/response_synthesis_agent.py  ResponseSynthesisAgent           *)
(*   app/agents/orchestrator.py           AgentOrchestrator                *)
(*                                                                         *)
(* Numbers.  Python floats are modelled by scaled integers:                *)
(*   weights, distances, similarities, factors : hundredths  (0.35 -> 35)  *)
(*   values the code passes through round(x, 3): thousandths (0.35 -> 350) *)
(* A Python dict is a TLA+ record (a function on its keys); d.get(k, v)    *)
(* is Get(d, k, v).  Python None is the string "None".                     *)
(***************************************************************************)
EXTENDS Integers, Sequences, FiniteSets, TLC

VARIABLES
    op,      \* the method under call
    args,    \* its arguments
    ret,     \* <<>> before it returns, <<value returned>> after
    pc,      \* process_query: the stage reached ("idle" in a unit harness)
    locals,  \* process_query: its local variables, each once assigned
    calls,   \* process_query: the agent methods invoked so far, in order
    call_args,  \* process_query: the arguments of each of these calls
    http,    \* the query endpoint: <<>>, then <<the response it sends>>
    waiting  \* the process_query calls in progress on other threads: the
             \* parameters and local variables of each

vars == <<op, args, ret, pc, locals, calls, call_args, http, waiting>>

pipeline_vars == <<pc, locals, calls, call_args, http, waiting>>

None == "None"

\* the call of method o has returned
Returned(o) == op = o /\ ret # <<>>

BoundedSeq(S, n) == UNION {[1..k -> S] : k \in 0..n}

\* no process_query is running (the unit harnesses)
PipelineIdle ==
    /\ pc = "idle"
    /\ locals = [session_id |-> None]
    /\ calls = <<>>
    /\ call_args = <<>>
    /\ http = <<>>
    /\ waiting = <<>>

Get(d, k, default) == IF k \in DOMAIN d THEN d[k] ELSE default

Min(a, b) == IF a < b THEN a ELSE b
Max(a, b) == IF a > b THEN a ELSE b

RECURSIVE SumSeq(_)
SumSeq(s) == IF s = <<>> THEN 0 ELSE Head(s) + SumSeq(Tail(s))

RECURSIVE SumSet(_, _)
SumSet(S, f) ==
    IF S = {} THEN 0
    ELSE LET x == CHOOSE y \in S : TRUE IN f[x] + SumSet(S \ {x}, f)

(***************************************************************************)
(* Bounds of the model                                                     *)
(***************************************************************************)
MaxKeywords == 3     \* malicious keywords found in one query: 0..MaxKeywords
MaxHistory == 2      \* queries in a user_history

(***************************************************************************)
(* AnomalyDetectionAgent                                                   *)
(* A query is seen through what the detectors read of it:                  *)
(*   length, word_count : len(query), len(query.split())                   *)
(*   keywords : how many entries of malicious_keywords occur in it         *)
(*   patterns : how many of the suspicious_patterns match it               *)
(*   encoding : whether one of the encoding_patterns matches it            *)
(***************************************************************************)
max_query_length == 5000
max_words == 500
NumSuspiciousPatterns == 5

RiskWeight ==
    [malicious_keywords |-> 40, suspicious_patterns |-> 35,
     encoding_attack |-> 30, query_length |-> 15, behavior_anomaly |-> 25]

check_malicious_keywords(query) ==
    [found |-> query.keywords > 0, count |-> query.keywords]

check_suspicious_patterns(query) ==
    [found |-> query.patterns > 0, count |-> query.patterns]

check_encoding_attacks(query) == [found |-> query.encoding]

check_query_length(query) ==
    IF query.length > max_query_length THEN [anomalous |-> TRUE]
    ELSE IF query.word_count > max_words THEN [anomalous |-> TRUE]
    ELSE [anomalous |-> FALSE]

\* user_history is the sequence of the lengths of the previous queries.
\* current_length > (sum / n) * 3, stated without the division.
check_behavior_anomaly(query, user_history) ==
    IF user_history = <<>> THEN [anomalous |-> FALSE]
    ELSE [anomalous |-> query.length * Len(user_history) > SumSeq(user_history) * 3]

\* risk_score < t, for risk_score = sum / n (sum in hundredths, t in hundredths)
ScoreBelow(sum, n, t) == IF n = 0 THEN 0 < t ELSE sum < t * n

risk_level_of_sum(sum, n) ==
    IF sum < 30 THEN "low"
    ELSE IF sum < 60 THEN "medium"
    ELSE IF sum < 80 THEN "high"
    ELSE "critical"

risk_level_of(sum, n) ==
    IF ScoreBelow(sum, n, 30) THEN "low"
    ELSE IF ScoreBelow(sum, n, 60) THEN "medium"
    ELSE IF ScoreBelow(sum, n, 80) THEN "high"
    ELSE "critical"

make_decision_high_off_by_one(risk_level, risk_score, factor_count) ==
    IF risk_level = "critical" THEN "BLOCK"
    ELSE IF risk_level = "high"
         THEN (IF factor_count >= 2 THEN "BLOCK" ELSE "REVIEW_CAREFULLY")
    ELSE IF risk_level = "medium" THEN "REVIEW"
    ELSE "ALLOW"

make_decision(risk_level, risk_score, factor_count) ==
    IF risk_level = "critical" THEN "BLOCK"
    ELSE IF risk_level = "high"
         THEN (IF factor_count > 2 THEN "BLOCK" ELSE "REVIEW_CAREFULLY")
    ELSE IF risk_level = "medium" THEN "REVIEW"
    ELSE "ALLOW"

\* round(sum / n, 3) in thousandths.  The only ties these sums produce
\* (0.2875 and 0.2625, both with n = 4) are doubles just below the tie, which
\* round() takes down: ties go down.
RoundedScore(sum, n) == IF n = 0 THEN 0 ELSE (20 * sum + n - 1) \div (2 * n)

\* _search_relevant_documents is defined at module level, after the class
\* body has ended: an AnomalyDetectionAgent instance has no such attribute,
\* and self._search_relevant_documents(...) raises AttributeError.
HasSearchRelevantDocuments == FALSE

fail_safe_allows ==
    [is_anomalous |-> FALSE, risk_score |-> 0, confidence_score |-> 0,
     risk_level |-> "unknown", anomaly_count |-> 0, decision |-> "ALLOW",
     error |-> TRUE]

\* the dict returned by the except branch of analyze
fail_safe ==
    [is_anomalous |-> FALSE, risk_score |-> 0, confidence_score |-> 0,
     risk_level |-> "unknown", anomaly_count |-> 0, decision |-> "REVIEW",
     error |-> TRUE]

\* The steps of analyze at which an exception can be raised by the inputs
\* (a query or a history entry that is not a string).
AnalyzeSteps == {"keywords", "patterns", "encoding", "length", "behavior"}

\* What analyze computes before it builds its result: the detectors, the
\* score, the level and the decision of _make_decision.
\* user_history: the lengths of the previous queries (<<>>: None or empty).
risk_computation(query, user_history) ==
    LET kw == check_malicious_keywords(query)
        pt == check_suspicious_patterns(query)
        en == check_encoding_attacks(query)
        ln == check_query_length(query)
        bh == IF user_history # <<>>
              THEN check_behavior_anomaly(query, user_history)
              ELSE [anomalous |-> FALSE]
        risk_components ==
            (IF kw.found THEN {"malicious_keywords"} ELSE {})
            \cup (IF pt.found THEN {"suspicious_patterns"} ELSE {})
            \cup (IF en.found THEN {"encoding_attack"} ELSE {})
            \cup (IF ln.anomalous THEN {"query_length"} ELSE {})
            \cup (IF bh.anomalous THEN {"behavior_anomaly"} ELSE {})
        factor_count ==
            kw.count + pt.count + (IF en.found THEN 1 ELSE 0)
            + (IF ln.anomalous THEN 1 ELSE 0) + (IF bh.anomalous THEN 1 ELSE 0)
        sum == SumSet(risk_components, RiskWeight)
        n == Cardinality(risk_components)
        risk_level == risk_level_of(sum, n)
        decision == make_decision(risk_level, RoundedScore(sum, n), factor_count)
    IN  [risk_components |-> risk_components, factor_count |-> factor_count,
         sum |-> sum, n |-> n, risk_level |-> risk_level, decision |-> decision]

\* whether a step of analyze before the guidance search raises
\* fault: "none", or the step of AnalyzeSteps that raises.
analyze_raises(user_history, fault) ==
    /\ fault \in AnalyzeSteps
    /\ fault = "behavior" => user_history # <<>>

\* whether analyze reaches the call of rag_agent.retrieve_and_rank in
\* _search_relevant_documents
analyze_searches(query, user_history, fault) ==
    /\ ~analyze_raises(user_history, fault)
    /\ risk_computation(query, user_history).decision = "REVIEW"
    /\ HasSearchRelevantDocuments

\* guidance: what _search_relevant_documents would return, were it bound.
analyze(query, user_history, fault, guidance) ==
    LET c == risk_computation(query, user_history)
    IN  IF analyze_raises(user_history, fault)
        THEN fail_safe
        ELSE IF c.decision = "REVIEW" /\ ~HasSearchRelevantDocuments
        THEN fail_safe        \* AttributeError, caught by the except branch
        ELSE [is_anomalous |-> c.factor_count > 0,
              risk_score |-> RoundedScore(c.sum, c.n),
              confidence_score |-> Min(500 + c.factor_count * 150, 1000),
              risk_level |-> c.risk_level,
              anomaly_count |-> c.factor_count,
              risk_components |-> c.risk_components,
              decision |-> c.decision,
              guidance_documents |->
                  IF c.decision = "REVIEW" THEN guidance ELSE <<>>]

(***************************************************************************)
(* IntentClassifierAgent                                                   *)
(* A query is seen through what the rules read of it:                      *)
(*   matches[intent] : how many of keyword_rules[intent] occur in it,      *)
(*   length : len(query),                                                  *)
(*   structured : it contains "?" or starts with an interrogative word.    *)
(* Confidences are exact fractions in units of 1/38500, the common         *)
(* denominator of the terms of the rule score: Pct(p) is p/100.            *)
(***************************************************************************)
Pct(p) == p * 385

intents ==
    [product_inquiry |-> "product_agent", technical_support |-> "tech_agent",
     maintenance |-> "maintenance_agent", warranty |-> "warranty_agent",
     anomaly_concern |-> "anomaly_detection_agent", general |-> "general_agent"]

\* keyword_rules, in the order of the dict: the number of keywords of each
IntentOrder ==
    <<"product_inquiry", "technical_support", "maintenance", "warranty",
      "anomaly_concern", "general">>

KeywordCount ==
    [product_inquiry |-> 10, technical_support |-> 11, maintenance |-> 10,
     warranty |-> 10, anomaly_concern |-> 14, general |-> 0]

\* (matches / len(keywords)) * weight, weight in percent
KeywordScore(intent, matches, weight) ==
    IF KeywordCount[intent] = 0 THEN 0
    ELSE (Pct(weight) * matches) \div KeywordCount[intent]

\* the loop over intent_scores: the first intent of the highest score, if
\* that score is above 0
RECURSIVE BestIntent(_, _, _)
BestIntent(query, i, best) ==
    IF i > Len(IntentOrder) THEN best
    ELSE LET intent == IntentOrder[i]
             structure_bonus == IF query.structured THEN Pct(10) ELSE 0
             length_factor == Min(query.length, 100)  \* percent
             combined_score ==
                 KeywordScore(intent, query.matches[intent], 70)
                 + (Pct(20) * length_factor) \div 100 + structure_bonus
         IN  BestIntent(query, i + 1,
                 IF combined_score > best.confidence
                 THEN [intent |-> intent, confidence |-> combined_score]
                 ELSE best)

\* fault = "rules": a step of the rules raises (query.lower() of a query
\* that is no string), caught by the except branch of the rules
rules_based_classify(query, fault) ==
    IF fault = "rules" THEN [intent |-> "general", confidence |-> Pct(50)]
    ELSE
    LET anomaly_matches == query.matches["anomaly_concern"]
        \* anomaly_score > 0.2, anomaly_score = anomaly_matches / 14
        anomaly_detected == anomaly_matches * 10 > 2 * KeywordCount["anomaly_concern"]
        best == BestIntent(query, 1, [intent |-> "general", confidence |-> 0])
    IN  IF anomaly_detected
        THEN [intent |-> "anomaly_concern",
              confidence |-> Pct(90) + KeywordScore("anomaly_concern", anomaly_matches, 10)]
        ELSE IF best.confidence < Pct(30)
        THEN [intent |-> "general", confidence |-> Pct(50)]
        ELSE best

\* The response of the generation service to the classification prompt:
\*   [kind |-> "raises"]      generate_response raises
\*   [kind |-> "not_json"]    json.loads raises
\*   [kind |-> "json", intent, confidence]  a JSON object; an intent it
\*       does not carry reads "missing"; its confidence is [kind |->
\*       "missing"], [kind |-> "text"] (no number) or [kind |-> "number",
\*       value |-> v]
llm_classify(response) ==
    IF response.kind # "json"
    THEN [intent |-> "general", confidence |-> Pct(50)]
    ELSE IF response.confidence.kind = "text"   \* f"{confidence:.2f}" raises
    THEN [intent |-> "general", confidence |-> Pct(50)]
    ELSE LET intent == IF response.intent = "missing" THEN "general"
                       ELSE response.intent
             confidence == IF response.confidence.kind = "missing" THEN Pct(50)
                           ELSE response.confidence.value
         IN  [intent |-> IF intent \in DOMAIN intents THEN intent ELSE "general",
              confidence |-> confidence]

confidence_high == 80

classify_error_result_rules ==
    [intent |-> "general", confidence |-> 0, specialist |-> "general_agent",
     classification_method |-> "rules"]

\* the dict returned by the except branch of classify
classify_error_result ==
    [intent |-> "general", confidence |-> 0, specialist |-> "general_agent",
     classification_method |-> "error"]

\* whether classify calls the generation service (self._llm_classify)
\* fault: "none"; "slice": query[:100] raises in classify itself (a query
\* that cannot be sliced); "rules": see rules_based_classify
classify_calls_llm(query, fault) ==
    /\ fault # "slice"
    /\ rules_based_classify(query, fault).confidence < Pct(confidence_high)

classify_takes_ties(query, response, fault) ==
    IF fault = "slice" THEN classify_error_result
    ELSE
    LET rules_result == rules_based_classify(query, fault)
        llm_result == llm_classify(response)
        use_llm == rules_result.confidence < Pct(confidence_high)
        final == IF use_llm /\ llm_result.confidence >= rules_result.confidence
                 THEN llm_result ELSE rules_result
    IN  [intent |-> final.intent,
         confidence |-> final.confidence,
         specialist |-> Get(intents, final.intent, "general_agent"),
         classification_method |-> IF use_llm THEN "hybrid" ELSE "rules"]

classify(query, response, fault) ==
    IF fault = "slice" THEN classify_error_result
    ELSE
    LET rules_result == rules_based_classify(query, fault)
        llm_result == llm_classify(response)
        use_llm == rules_result.confidence < Pct(confidence_high)
        final == IF use_llm /\ llm_result.confidence > rules_result.confidence
                 THEN llm_result ELSE rules_result
    IN  [intent |-> final.intent,
         confidence |-> final.confidence,
         specialist |-> Get(intents, final.intent, "general_agent"),
         classification_method |-> IF use_llm THEN "hybrid" ELSE "rules"]

(***************************************************************************)
(* RAGAgent                                                                *)
(* A candidate of the vector index, as vector_db.query returns it:         *)
(*   document : the chunk (its identity), length : len(doc),               *)
(*   distance : cosine distance to the query, hundredths (0..200),         *)
(*   metadata : [doc_type, user_id, ingested_at]; a key the chunk does not *)
(*     carry reads None; ingested_at is [kind |-> "missing"], [kind |->    *)
(*     "unparseable"] or [kind |-> "iso", days_old |-> d], d being         *)
(*     (datetime.now() - ingested_time).days.                              *)
(* Factors and scores are in thousandths.                                  *)
(***************************************************************************)
min_similarity_threshold == 500
max_results == 10

\* round(x / d) for x >= 0, ties to even (round(v, 3) of a value v that is
\* x / d thousandths)
RoundDiv(x, d) ==
    LET q == x \div d
        r == x % d
    IN  IF 2 * r > d \/ (2 * r = d /\ q % 2 = 1) THEN q + 1 ELSE q

calculate_ranking_factors(doc, metadata, similarity_score, rank) ==
    LET base ==
            [semantic_similarity |-> similarity_score,
             position_bonus |-> Max(1000 - rank * 50, 0),
             length_factor |-> Min(doc.length, 1000),
             doc_type_score |-> IF metadata.doc_type = "system" THEN 1000 ELSE 800]
        at == metadata.ingested_at
    IN  IF at.kind = "missing" THEN base     \* no "recency" key is set
        ELSE IF at.kind = "unparseable"
        THEN base @@ [recency |-> 1000]
        ELSE base @@ [recency |-> Max(1000 - at.days_old * 10, 500)]

\* in units of 1/100000
calculate_combined_score(ranking_factors) ==
    Get(ranking_factors, "semantic_similarity", 0) * 50
    + Get(ranking_factors, "position_bonus", 0) * 20
    + Get(ranking_factors, "recency", 0) * 15
    + Get(ranking_factors, "doc_type_score", 0) * 10
    + Get(ranking_factors, "length_factor", 0) * 5

filter_documents_no_user_check(documents, user_id, doc_type) ==
    IF doc_type # None
    THEN SelectSeq(documents, LAMBDA d : d.metadata.doc_type = doc_type)
    ELSE documents

filter_documents(documents, user_id, doc_type) ==
    LET by_user ==
            IF user_id # None
            THEN SelectSeq(documents,
                     LAMBDA d : \/ d.metadata.doc_type = "system"
                                \/ d.metadata.user_id = user_id)
            ELSE documents
    IN  IF doc_type # None
        THEN SelectSeq(by_user, LAMBDA d : d.metadata.doc_type = doc_type)
        ELSE by_user

\* sorted(documents, key = combined_score, reverse = True): stable, so that
\* documents of equal score keep their order
RECURSIVE InsertByScore(_, _)
InsertByScore(sorted, d) ==
    IF sorted = <<>> THEN <<d>>
    ELSE IF Head(sorted).combined_score >= d.combined_score
    THEN <<Head(sorted)>> \o InsertByScore(Tail(sorted), d)
    ELSE <<d>> \o sorted

RECURSIVE SortByScore(_)
SortByScore(documents) ==
    IF documents = <<>> THEN <<>>
    ELSE InsertByScore(SortByScore(SubSeq(documents, 1, Len(documents) - 1)),
                       documents[Len(documents)])

unsorted_documents(documents) == documents

sorted_documents(documents) == SortByScore(documents)

\* for rank, doc in enumerate(final_documents, 1): doc["rank"] = rank
AssignRanks(documents) ==
    [i \in 1..Len(documents) |-> [documents[i] EXCEPT !.rank = i]]

\* steps 3 and 4: the scored documents of the raw results, in index order
ScoredDocuments(raw_results) ==
    LET scored(i) ==
            LET c == raw_results[i]
                similarity_score == 1000 - c.distance * 10
                ranking_factors ==
                    calculate_ranking_factors(c, c.metadata, similarity_score, i - 1)
            IN  [rank |-> 0,
                 document |-> c.document,
                 similarity_score |-> similarity_score,
                 combined_score |->
                     RoundDiv(calculate_combined_score(ranking_factors), 100),
                 metadata |-> c.metadata,
                 ranking_factors |-> ranking_factors]
        kept == SelectSeq([i \in 1..Len(raw_results) |-> i],
                    LAMBDA i : ~(1000 - raw_results[i].distance * 10
                                   < min_similarity_threshold))
    IN  [k \in 1..Len(kept) |-> scored(kept[k])]

\* collection.query(n_results = k): the k nearest chunks of the index
VectorDbQuery(index, k) == SubSeq(index, 1, Min(k, Len(index)))

RagFaults == {"embedding", "vector_db"}

retrieval_failure_reported_as_success(error) ==
    [success |-> TRUE, documents |-> <<>>, error |-> error]

\* the dict returned when get_embedding or vector_db.query raises
retrieval_failure(error) ==
    [success |-> FALSE, documents |-> <<>>, error |-> error]

\* fault: "none", or the collaborator call of RagFaults that raises
retrieve_and_rank(index, n_results, user_id, doc_type, fault) ==
    IF fault = "embedding" THEN retrieval_failure("embedding")
    ELSE IF fault = "vector_db" THEN retrieval_failure("vector_db")
    ELSE
    LET retrieve_count == Min(max_results, n_results * 2)
        raw_results == VectorDbQuery(index, retrieve_count)
        scored == ScoredDocuments(raw_results)
        filtered == filter_documents(scored, user_id, doc_type)
        sorted == sorted_documents(filtered)
        final_documents ==
            AssignRanks(SubSeq(sorted, 1, Min(n_results, Len(sorted))))
        total == SumSeq([i \in 1..Len(final_documents) |->
                            final_documents[i].similarity_score])
        confidence ==
            IF final_documents # <<>>
            THEN RoundDiv(Min(total, 1000 * Len(final_documents)),
                          Len(final_documents))
            ELSE 0
    IN  [success |-> TRUE,
         documents |-> final_documents,
         document_count |-> Len(final_documents),
         confidence |-> confidence,
         retrieval_stats |->
             [retrieved |-> Len(scored),
              after_filtering |-> Len(filtered),
              returned |-> Len(final_documents),
              avg_similarity |-> confidence],
         filters_applied |-> [user_id |-> user_id, doc_type |-> doc_type]]

(***************************************************************************)
(* Unit harness of the intent classifier: classify called on every query   *)
(* and every response of the generation service of the bounded sets.       *)
(***************************************************************************)
NoMatches == [i \in DOMAIN KeywordCount |-> 0]

\* queries by what the rules read of them: up to three keywords of one
\* intent, or none
ClassifierQueries ==
    {[matches |-> [NoMatches EXCEPT ![i] = m], length |-> l, structured |-> b] :
        i \in DOMAIN KeywordCount \ {"general"}, m \in 0..MaxKeywords,
        l \in {10, 40, 100}, b \in BOOLEAN}

Number(v) == [kind |-> "number", value |-> v]

LlmResponses ==
    {[kind |-> "raises"], [kind |-> "not_json"]}
    \cup [kind : {"json"},
          intent : {"warranty", "anomaly_concern", "refund", "missing"},
          confidence : {[kind |-> "missing"], [kind |-> "text"],
                        Number(Pct(20)), Number(Pct(95)), Number(Pct(150))}]

ClassifyArgs ==
    [query : ClassifierQueries, response : LlmResponses,
     fault : {"none", "slice", "rules"}]

LlmClassifyArgs == [response : LlmResponses]

InitClassify ==
    /\ op \in {"classify", "llm_classify"}
    /\ args \in IF op = "classify" THEN ClassifyArgs ELSE LlmClassifyArgs
    /\ ret = <<>>
    /\ PipelineIdle

\* calls records the calls classify makes on the generation service
ClassifyCall ==
    /\ op = "classify" /\ ret = <<>>
    /\ ret' = <<classify(args.query, args.response, args.fault)>>
    /\ IF classify_calls_llm(args.query, args.fault)
       THEN /\ calls' = Append(calls, "generate_response")
            /\ call_args' = Append(call_args, [temperature |-> 30, max_tokens |-> 100])
       ELSE UNCHANGED <<calls, call_args>>
    /\ UNCHANGED <<op, args, pc, locals, http, waiting>>

\* _llm_classify, the model step alone
LlmClassifyCall ==
    /\ op = "llm_classify" /\ ret = <<>>
    /\ ret' = <<llm_classify(args.response)>>
    /\ calls' = Append(calls, "generate_response")
    /\ call_args' = Append(call_args, [temperature |-> 30, max_tokens |-> 100])
    /\ UNCHANGED <<op, args, pc, locals, http, waiting>>

NextClassify == ClassifyCall \/ LlmClassifyCall

SpecClassify == InitClassify /\ [][NextClassify]_vars

\* C10: classify never raises (every call returns a classification), and
\* when an exception escapes the rule and model steps (args.fault = "slice")
\* it returns general, 0.0, general_agent, method "error".
C10_ClassifyErrorResult ==
    Returned("classify") =>
        /\ {"intent", "confidence", "specialist", "classification_method"}
               \subseteq DOMAIN ret[1]
        /\ args.fault = "slice" =>
              /\ ret[1].intent = "general"
              /\ ret[1].confidence = 0
              /\ ret[1].specialist = "general_agent"
              /\ ret[1].classification_method = "error"
        \* an exception caught inside the rule or model step does not escape
        /\ args.fault # "slice" =>
              ret[1].classification_method \in {"rules", "hybrid"}

C10_Witness ==
    /\ Returned("classify")
    /\ args.fault = "slice"
    /\ args.query.matches["anomaly_concern"] = 3
    /\ ret[1].classification_method = "error"

\* C11: every result of classify has its intent in the catalog, its
\* confidence in [0, 1] and its classification_method in {rules, hybrid,
\* error}, whatever the query and the response of the generation service.
\* Stated on the calls whose query is a string (args.fault = "none").
C11_ClassifyResultInRange ==
    (Returned("classify") /\ args.fault = "none") =>
        /\ ret[1].intent \in DOMAIN intents
        /\ ret[1].confidence >= 0 /\ ret[1].confidence <= Pct(100)
        /\ ret[1].classification_method \in {"rules", "hybrid", "error"}

\* C14: a query that contains at least one keyword of
\* keyword_rules["anomaly_concern"] is classified anomaly_concern by the
\* rules, with confidence >= 0.9 and classification_method rules (the
\* generation service is not asked).
C14_SecurityFastPath ==
    (/\ Returned("classify") /\ args.fault = "none"
     /\ args.query.matches["anomaly_concern"] >= 1) =>
        /\ ret[1].intent = "anomaly_concern"
        /\ ret[1].confidence >= Pct(90)
        /\ ret[1].classification_method = "rules"

(***************************************************************************)
(* Unit harness of the retrieval engine: retrieve_and_rank called on every *)
(* index of the bounded sets, with and without filters.                    *)
(***************************************************************************)
MaxIndex == 3        \* chunks the index holds near a query
MaxNResults == 3     \* n_results asked for: 1..MaxNResults

Iso(d) == [kind |-> "iso", days_old |-> d]

\* the chunks an index is drawn from (days_old < 0: ingested_at in the future)
Chunks ==
    [d1 |-> [length |-> 1200,
             metadata |-> [doc_type |-> "system", user_id |-> "system",
                           ingested_at |-> Iso(-3)]],
     d2 |-> [length |-> 300,
             metadata |-> [doc_type |-> "system", user_id |-> "system",
                           ingested_at |-> Iso(200)]],
     d3 |-> [length |-> 800,
             metadata |-> [doc_type |-> "user", user_id |-> "A",
                           ingested_at |-> [kind |-> "missing"]]],
     d4 |-> [length |-> 1000,
             metadata |-> [doc_type |-> "user", user_id |-> "B",
                           ingested_at |-> Iso(0)]],
     d5 |-> [length |-> 50,
             metadata |-> [doc_type |-> None, user_id |-> None,
                           ingested_at |-> [kind |-> "unparseable"]]]]

Distances == {0, 10, 40, 60}

Candidate(id, distance) ==
    [document |-> id, length |-> Chunks[id].length, distance |-> distance,
     metadata |-> Chunks[id].metadata]

\* what the collection answers to a query: distinct chunks, nearest first
Indexes(n) ==
    {ix \in BoundedSeq({Candidate(id, d) : id \in DOMAIN Chunks, d \in Distances}, n) :
        \A i, j \in 1..Len(ix) :
            i < j => /\ ix[i].document # ix[j].document
                     /\ ix[i].distance <= ix[j].distance}

UserIds == {None, "A", "B"}
DocTypes == {None, "system", "user"}

RagArgs ==
    [index : Indexes(MaxIndex), n_results : 1..MaxNResults,
     user_id : UserIds, doc_type : DocTypes, fault : {"none"} \cup RagFaults]

InitRag ==
    /\ op = "retrieve_and_rank"
    /\ args \in RagArgs
    /\ ret = <<>>
    /\ PipelineIdle

RetrieveAndRankCall ==
    /\ op = "retrieve_and_rank" /\ ret = <<>>
    /\ ret' = <<retrieve_and_rank(args.index, args.n_results, args.user_id,
                                  args.doc_type, args.fault)>>
    /\ UNCHANGED <<op, args, pipeline_vars>>

NextRag == RetrieveAndRankCall

SpecRag == InitRag /\ [][NextRag]_vars

Docs(r) == {r.documents[i] : i \in 1..Len(r.documents)}

\* C7: with user_id given, every returned document is a system document or
\* the requested user's; with doc_type given, every returned document has
\* that doc_type.
C7_AccessFilter ==
    Returned("retrieve_and_rank") =>
        /\ args.user_id # None =>
              \A d \in Docs(ret[1]) :
                  \/ Chunks[d.document].metadata.doc_type = "system"
                  \/ Chunks[d.document].metadata.user_id = args.user_id
        /\ args.doc_type # None =>
              \A d \in Docs(ret[1]) :
                  Chunks[d.document].metadata.doc_type = args.doc_type

\* user A asks, without a doc_type; user B's chunk is the nearest of the
\* index and is not among the documents returned, A's is
C7_Witness ==
    /\ Returned("retrieve_and_rank")
    /\ args.user_id = "A" /\ args.doc_type = None
    /\ Len(args.index) >= 2
    /\ args.index[1].document = "d4" /\ args.index[1].distance = 10
    /\ \E d \in Docs(ret[1]) : d.document = "d3"
    /\ \A d \in Docs(ret[1]) : d.document # "d4"

\* C8: a successful retrieve_and_rank returns k = retrieval_stats.returned
\* <= n_results documents, ranked 1..k in list order, combined_score not
\* increasing with the rank.
C8_RankDensity ==
    (Returned("retrieve_and_rank") /\ ret[1].success) =>
        LET docs == ret[1].documents
            k == Len(docs)
        IN  /\ k = ret[1].retrieval_stats.returned
            /\ k <= args.n_results
            /\ \A i \in 1..k : docs[i].rank = i
            /\ \A i \in 1..k : \A j \in 1..k :
                   i < j => docs[i].combined_score >= docs[j].combined_score

\* two documents are returned and the index order was not the score order
C8_Witness ==
    /\ Returned("retrieve_and_rank") /\ ret[1].success
    /\ Len(ret[1].documents) >= 2
    /\ ret[1].retrieval_stats.after_filtering > Len(ret[1].documents)
    /\ ret[1].documents[1].document # args.index[1].document
    /\ ret[1].documents[1].combined_score > ret[1].documents[2].combined_score

(***************************************************************************)
(* Unit harness of the risk scorer: analyze and _make_decision called on   *)
(* every input of the bounded sets.                                        *)
(***************************************************************************)
MaxFactors == 4      \* factor_count given to _make_decision: 0..MaxFactors
MaxPipelineIndex == 1   \* chunks the index holds near a pipeline query

\* (no chunk is the pipeline query's own text: none at distance 0)
PipelineIndexes ==
    {ix \in Indexes(MaxPipelineIndex) : \A i \in 1..Len(ix) : ix[i].distance > 0}

\* what the index holds near the queries of two calls in progress at once
ConcurrentIndexes == {<<>>, <<Candidate("d1", 10)>>}

\* what a retrieve_and_rank call of the pipeline meets: the index's
\* candidates, and the step of the engine that fails, if one does
RagBehaviours ==
    (IF waiting = <<>> THEN PipelineIndexes ELSE ConcurrentIndexes)
        \X ({"none"} \cup RagFaults)

\* _search_relevant_documents: the documents of one retrieve_and_rank call,
\* n_results 3 and doc_type system, [] when the engine reports a failure
search_relevant_documents(b) ==
    LET rag_result == retrieve_and_rank(b[1], 3, None, "system", b[2])
    IN  IF Get(rag_result, "success", FALSE)
        THEN Get(rag_result, "documents", <<>>)
        ELSE <<>>

QueryLengths == {10, 100, max_query_length + 1}
WordCounts == {2, max_words + 1}
HistoryLengths == {10, 100}

DetectorQueries ==
    [length : QueryLengths, word_count : WordCounts,
     keywords : 0..MaxKeywords, patterns : 0..NumSuspiciousPatterns,
     encoding : BOOLEAN]

AnalyzeArgs ==
    [query : DetectorQueries,
     user_history : BoundedSeq(HistoryLengths, MaxHistory),
     fault : {"none"} \cup AnalyzeSteps]

RiskLevels == {"low", "medium", "high", "critical"}
Decisions == {"ALLOW", "REVIEW", "REVIEW_CAREFULLY", "BLOCK"}

MakeDecisionArgs ==
    [risk_level : RiskLevels \cup {"unknown"}, risk_score : {0, 450, 700, 900},
     factor_count : 0..MaxFactors]

InitRisk ==
    /\ op \in {"analyze", "make_decision"}
    /\ args \in IF op = "analyze" THEN AnalyzeArgs ELSE MakeDecisionArgs
    /\ ret = <<>>
    /\ PipelineIdle

\* calls and call_args record the calls analyze makes on the retrieval engine
AnalyzeCall ==
    /\ op = "analyze" /\ ret = <<>>
    /\ IF analyze_searches(args.query, args.user_history, args.fault)
       THEN /\ \E b \in RagBehaviours :
                  ret' = <<analyze(args.query, args.user_history, args.fault,
                                   search_relevant_documents(b))>>
            /\ calls' = Append(calls, "retrieve_and_rank")
            /\ call_args' = Append(call_args,
                   [n_results |-> 3, doc_type |-> "system", user_id |-> None])
       ELSE /\ ret' = <<analyze(args.query, args.user_history, args.fault, <<>>)>>
            /\ UNCHANGED <<calls, call_args>>
    /\ UNCHANGED <<op, args, pc, locals, http, waiting>>

MakeDecisionCall ==
    /\ op = "make_decision" /\ ret = <<>>
    /\ ret' = <<make_decision(args.risk_level, args.risk_score, args.factor_count)>>
    /\ UNCHANGED <<op, args, pipeline_vars>>

NextRisk == AnalyzeCall \/ MakeDecisionCall

SpecRisk == InitRisk /\ [][NextRisk]_vars

\* C4: analyze never raises (every call returns an assessment), and when a
\* step of its computation raises (args.fault names the step) the assessment
\* it returns has decision REVIEW, never ALLOW.
C4_FailSafeReview ==
    Returned("analyze") =>
        /\ "decision" \in DOMAIN ret[1]
        /\ ret[1].decision \in Decisions
        /\ (/\ args.fault \in AnalyzeSteps
            /\ args.fault = "behavior" => args.user_history # <<>>)
           => ret[1].decision = "REVIEW" /\ "error" \in DOMAIN ret[1]

C4_Witness ==
    /\ Returned("analyze")
    /\ args.fault = "patterns"
    /\ args.query.keywords = 0 /\ args.query.patterns = 0
    /\ ~args.query.encoding
    /\ ret[1].decision = "REVIEW"

\* the threshold function of a returned (rounded, thousandths) risk_score
LevelOfScore(score) ==
    IF score < 300 THEN "low"
    ELSE IF score < 600 THEN "medium"
    ELSE IF score < 800 THEN "high"
    ELSE "critical"

\* C5: every assessment analyze returns has risk_level in {low, medium,
\* high, critical}, equal to the threshold function of its risk_score.
\* Stated on the calls whose detectors all return (args.fault = "none"), the
\* queries and histories of the declared types.
C5_LevelIsThresholdOfScore ==
    (Returned("analyze") /\ args.fault = "none") =>
        /\ ret[1].risk_level \in RiskLevels
        /\ ret[1].risk_level = LevelOfScore(ret[1].risk_score)

\* C6: _make_decision is the table low -> ALLOW, medium -> REVIEW,
\* high -> BLOCK if factor_count > 2 else REVIEW_CAREFULLY, critical -> BLOCK,
\* whatever the risk_score.
C6_DecisionTable ==
    (Returned("make_decision") /\ args.risk_level \in RiskLevels) =>
        ret[1] = CASE args.risk_level = "low" -> "ALLOW"
                   [] args.risk_level = "medium" -> "REVIEW"
                   [] args.risk_level = "critical" -> "BLOCK"
                   [] args.risk_level = "high" /\ args.factor_count > 2 -> "BLOCK"
                   [] args.risk_level = "high" /\ args.factor_count <= 2
                        -> "REVIEW_CAREFULLY"

C6_Witness ==
    /\ Returned("make_decision")
    /\ args.risk_level = "high" /\ args.factor_count = 3
    /\ ret[1] = "BLOCK"


(***************************************************************************)
(* ResponseSynthesisAgent                                                  *)
(***************************************************************************)
determine_strategy_documents_first(anomaly_info, rag_documents) ==
    LET is_anomalous == Get(anomaly_info, "is_anomalous", FALSE)
        anomaly_decision == Get(anomaly_info, "decision", "ALLOW")
    IN  IF anomaly_decision = "BLOCK"
        THEN [type |-> "ESCALATION", includes_guidance |-> TRUE]
        ELSE IF Len(rag_documents) > 0
        THEN [type |-> "NORMAL", includes_guidance |-> FALSE]
        ELSE IF is_anomalous /\ anomaly_decision \in {"REVIEW", "REVIEW_CAREFULLY"}
        THEN [type |-> "ANOMALY_REVIEW", includes_guidance |-> TRUE]
        ELSE [type |-> "GENERAL", includes_guidance |-> FALSE]

\* the strategy dict, by the keys the synthesizer reads of it
determine_strategy(anomaly_info, rag_documents) ==
    LET is_anomalous == Get(anomaly_info, "is_anomalous", FALSE)
        anomaly_decision == Get(anomaly_info, "decision", "ALLOW")
    IN  IF anomaly_decision = "BLOCK"
        THEN [type |-> "ESCALATION", includes_guidance |-> TRUE]
        ELSE IF is_anomalous /\ anomaly_decision \in {"REVIEW", "REVIEW_CAREFULLY"}
        THEN [type |-> "ANOMALY_REVIEW", includes_guidance |-> TRUE]
        ELSE IF Len(rag_documents) > 0
        THEN [type |-> "NORMAL", includes_guidance |-> FALSE]
        ELSE [type |-> "GENERAL", includes_guidance |-> FALSE]

ContextDoc(doc, source, type) ==
    [source |-> source, rank |-> Get(doc, "rank", 0),
     content |-> Get(doc, "document", ""),
     score |-> Get(doc, "similarity_score", 0), type |-> type]

prepare_context_documents_rag_first(anomaly_info, rag_documents, strategy) ==
    LET guidance_docs ==
            IF strategy.includes_guidance
            THEN Get(anomaly_info, "guidance_documents", <<>>)
            ELSE <<>>
    IN  [i \in 1..Len(rag_documents) |->
            ContextDoc(rag_documents[i], "rag", "retrieved")]
        \o [i \in 1..Len(guidance_docs) |->
            ContextDoc(guidance_docs[i], "guidance", "guidance")]

\* (the score of a retrieved document falls back on its combined_score only
\* when its similarity_score is 0 or absent; the engine returns none below
\* min_similarity_threshold)
prepare_context_documents(anomaly_info, rag_documents, strategy) ==
    LET guidance_docs ==
            IF strategy.includes_guidance
            THEN Get(anomaly_info, "guidance_documents", <<>>)
            ELSE <<>>
    IN  [i \in 1..Len(guidance_docs) |->
            ContextDoc(guidance_docs[i], "guidance", "guidance")]
        \o [i \in 1..Len(rag_documents) |->
            ContextDoc(rag_documents[i], "rag", "retrieved")]

GenerationUnavailable ==
    "I apologize, but I was unable to generate a response at this time."

\* generation: what the generation service does with the prompt: "raises",
\* or the text it answers, stripped: "ok" (a paragraph), "empty" (nothing)
generate_response(generation) ==
    IF generation = "raises" THEN GenerationUnavailable
    ELSE IF generation = "empty" THEN ""
    ELSE "generated text"

\* What the metrics read of a response text:
\*   words : its distinct words of 4 letters or more,
\*   sentences : the pieces of response.split('.') longer than 10 characters,
\*   upper_first, end_mark, all_upper : response[0].isupper(), its last
\*     character is one of .!? , response.isupper(),
\*   length, spaces : len(response), response.count(' ').
TextRead ==
    [e \in {""} |->
        [words |-> 0, sentences |-> 0, upper_first |-> FALSE, end_mark |-> FALSE,
         all_upper |-> FALSE, length |-> 0, spaces |-> 0]]
    @@ [g \in {"generated text"} |->
        [words |-> 5, sentences |-> 2, upper_first |-> TRUE, end_mark |-> TRUE,
         all_upper |-> FALSE, length |-> 120, spaces |-> 20]]
    @@ [a \in {GenerationUnavailable} |->
        [words |-> 6, sentences |-> 1, upper_first |-> TRUE, end_mark |-> TRUE,
         all_upper |-> FALSE, length |-> 66, spaces |-> 12]]

\* What the metrics read of the query and of how the texts overlap (reads):
\*   query_words : the distinct words of 4 letters or more of the query,
\*   response_in_context, query_in_response, query_in_context : how many
\*     words of the first text occur in the second,
\*   supported : the sentences of the response the context supports,
\*   semantic : [kind |-> "unavailable"] without sentence_transformers, else
\*     [kind |-> "cos_sim", value |-> v], the similarity (thousandths) the
\*     model gives any pair of texts.
\* round(min((overlap / words) * factor, 1.0), 3), factor in thousandths
OverlapScore(overlap, words, factor) ==
    RoundDiv(Min(Min(overlap, words) * factor, words * 1000), words)

metric_groundedness(response, context_docs, reads) ==
    IF response = "" \/ context_docs = <<>> THEN 0
    ELSE IF TextRead[response].words = 0 THEN 0
    ELSE OverlapScore(reads.response_in_context, TextRead[response].words, 1300)

metric_answer_relevance(response, reads) ==
    IF response = "" THEN 0
    ELSE IF reads.semantic.kind = "cos_sim" THEN reads.semantic.value
    ELSE IF reads.query_words = 0 THEN 500
    ELSE OverlapScore(reads.query_in_response, reads.query_words, 1500)

metric_context_relevance(context_docs, reads) ==
    IF context_docs = <<>> THEN 0
    ELSE IF reads.semantic.kind = "cos_sim" THEN reads.semantic.value
    ELSE IF reads.query_words = 0 THEN 0
    ELSE OverlapScore(reads.query_in_context, reads.query_words, 1500)

metric_faithfulness(response, context_docs, reads) ==
    IF context_docs = <<>> \/ response = "" THEN 500
    ELSE IF TextRead[response].sentences = 0 THEN 1000
    ELSE RoundDiv(Min(reads.supported, TextRead[response].sentences) * 1000,
                  TextRead[response].sentences)

metric_formatting(response) ==
    IF response = "" THEN 0
    ELSE LET t == TextRead[response]
         IN  (IF t.upper_first THEN 200 ELSE 0)
             + (IF t.end_mark THEN 200 ELSE 0)
             + (IF 30 < t.length /\ t.length < 2000 THEN 200
                ELSE IF t.length >= 30 THEN 100 ELSE 0)
             + (IF t.spaces > 3 THEN 200 ELSE 0)
             + (IF ~t.all_upper THEN 200 ELSE 0)

\* the metrics in thousandths; the weights in hundredths, their sum 1.0
calculate_realtime_quality(response, context_docs, reads) ==
    CHOOSE quality \in
        {metrics @@
            [overall_quality |->
                RoundDiv(metrics.groundedness * 25 + metrics.answer_relevance * 25
                         + metrics.context_relevance * 15 + metrics.faithfulness * 25
                         + metrics.formatting * 10, 100)] :
         metrics \in
            {[groundedness |-> metric_groundedness(response, context_docs, reads),
              answer_relevance |-> metric_answer_relevance(response, reads),
              context_relevance |-> metric_context_relevance(context_docs, reads),
              faithfulness |-> metric_faithfulness(response, context_docs, reads),
              formatting |-> metric_formatting(response)]}} : TRUE

SynthesisFailed ==
    "I apologize, but I encountered an error generating a response. Please try again."

\* intent = None: the value of an intent argument that is no dict
NoIntent == [none |-> TRUE]

\* the dict returned by the except branch of synthesize
synthesize_error_result(intent) ==
    [response |-> SynthesisFailed,
     intent |-> IF intent = NoIntent THEN "unknown"
                ELSE Get(intent, "intent", "unknown"),
     confidence |-> 0, error |-> TRUE]

\* intent.get raises on an intent that is None, when the result is built
synthesize(intent, anomaly_info, rag_documents, generation, reads) ==
    IF intent = NoIntent THEN synthesize_error_result(intent)
    ELSE
    LET strategy == determine_strategy(anomaly_info, rag_documents)
        context_docs == prepare_context_documents(anomaly_info, rag_documents, strategy)
        response_text == generate_response(generation)
    IN  [response |-> response_text,
         intent |-> Get(intent, "intent", "unknown"),
         confidence |-> Get(intent, "confidence", 0),
         response_strategy |-> strategy.type,
         quality_metrics |->
             calculate_realtime_quality(response_text, context_docs, reads),
         context_used |->
             [anomaly_detection |-> Get(anomaly_info, "is_anomalous", FALSE),
              rag_documents |-> Len(context_docs),
              includes_guidance |-> strategy.includes_guidance],
         documents |-> context_docs]

(***************************************************************************)
(* Unit harness of the synthesizer: _determine_strategy and synthesize     *)
(* called on every assessment, document list, generation outcome and       *)
(* reading of the bounded sets.                                            *)
(***************************************************************************)
\* assessments by what the synthesizer reads of them; a key an assessment
\* does not carry is absent ("absent" below), None is the empty assessment
AnomalyInfos ==
    {[x \in {} |-> 0]}
    \cup {[decision |-> d] : d \in {"ALLOW", "REVIEW"}}
    \cup [is_anomalous : BOOLEAN,
          decision : {"ALLOW", "REVIEW", "REVIEW_CAREFULLY", "BLOCK", "UNKNOWN"},
          guidance_documents : {<<>>, <<[rank |-> 1, document |-> "d1",
                                         similarity_score |-> 900]>>}]

RagDocumentLists ==
    {<<>>,
     <<[rank |-> 1, document |-> "d2", similarity_score |-> 800]>>,
     <<[rank |-> 1, document |-> "d2", similarity_score |-> 800],
       [rank |-> 2, document |-> "d3", similarity_score |-> 700]>>}

Generations == {"ok", "empty", "raises"}

Reads ==
    {[query_words |-> 0, response_in_context |-> 0, query_in_response |-> 0,
      query_in_context |-> 0, supported |-> 0, semantic |-> [kind |-> "unavailable"]],
     [query_words |-> 3, response_in_context |-> 0, query_in_response |-> 0,
      query_in_context |-> 0, supported |-> 0, semantic |-> [kind |-> "unavailable"]],
     [query_words |-> 3, response_in_context |-> 2, query_in_response |-> 1,
      query_in_context |-> 3, supported |-> 1, semantic |-> [kind |-> "unavailable"]],
     [query_words |-> 3, response_in_context |-> 2, query_in_response |-> 1,
      query_in_context |-> 3, supported |-> 1,
      semantic |-> [kind |-> "cos_sim", value |-> 420]]}

SynthIntents ==
    {NoIntent,
     [intent |-> "warranty", confidence |-> Pct(80), specialist |-> "warranty_agent"]}

SynthesizeArgs ==
    [intent : SynthIntents, anomaly_info : AnomalyInfos,
     rag_documents : RagDocumentLists, generation : Generations, reads : Reads]

DetermineStrategyArgs ==
    [anomaly_info : AnomalyInfos, rag_documents : RagDocumentLists]

\* the strategy dicts _determine_strategy returns
Strategies ==
    {determine_strategy(a, r) : a \in AnomalyInfos, r \in RagDocumentLists}

\* assessments with two guidance documents, one of them also retrieved
TwoGuidanceInfos ==
    [is_anomalous : {TRUE}, decision : {"REVIEW", "BLOCK"},
     guidance_documents :
         {<<[rank |-> 1, document |-> "d1", similarity_score |-> 900],
            [rank |-> 2, document |-> "d2", similarity_score |-> 800]>>}]

PrepareContextArgs ==
    [anomaly_info : AnomalyInfos \cup TwoGuidanceInfos,
     rag_documents : RagDocumentLists, strategy : Strategies]

InitSynth ==
    /\ \/ op = "synthesize" /\ args \in SynthesizeArgs
       \/ op = "determine_strategy" /\ args \in DetermineStrategyArgs
       \/ op = "prepare_context_documents" /\ args \in PrepareContextArgs
    /\ ret = <<>>
    /\ PipelineIdle

SynthesizeCall ==
    /\ op = "synthesize" /\ ret = <<>>
    /\ ret' = <<synthesize(args.intent, args.anomaly_info, args.rag_documents,
                           args.generation, args.reads)>>
    /\ UNCHANGED <<op, args, pipeline_vars>>

DetermineStrategyCall ==
    /\ op = "determine_strategy" /\ ret = <<>>
    /\ ret' = <<determine_strategy(args.anomaly_info, args.rag_documents)>>
    /\ UNCHANGED <<op, args, pipeline_vars>>

PrepareContextCall ==
    /\ op = "prepare_context_documents" /\ ret = <<>>
    /\ ret' = <<prepare_context_documents(args.anomaly_info, args.rag_documents,
                                          args.strategy)>>
    /\ UNCHANGED <<op, args, pipeline_vars>>

NextSynth == SynthesizeCall \/ DetermineStrategyCall \/ PrepareContextCall

SpecSynth == InitSynth /\ [][NextSynth]_vars

StrategyTypes == {"NORMAL", "ANOMALY_REVIEW", "ESCALATION", "GENERAL"}

QualityMetrics ==
    {"groundedness", "answer_relevance", "context_relevance", "faithfulness",
     "formatting", "overall_quality"}

\* C13: synthesize never raises (every call returns a result), and whenever
\* the generation call fails the response is an apology and the six quality
\* metrics of the result are all 0.
C13_FailureMetricsZero ==
    Returned("synthesize") =>
        /\ "response" \in DOMAIN ret[1]
        /\ (args.generation = "raises" /\ args.intent # NoIntent) =>
              /\ ret[1].response = GenerationUnavailable
              /\ \A m \in QualityMetrics : ret[1].quality_metrics[m] = 0

\* results a classifier given to the constructor may return
DoubleIntentResults ==
    {[intent |-> i, confidence |-> Pct(90), specialist |-> intents[i],
      classification_method |-> "rules"] : i \in {"warranty", "anomaly_concern"}}

GuidanceDoc ==
    [rank |-> 1, document |-> "d1", similarity_score |-> 900,
     combined_score |-> 900, metadata |-> Chunks["d1"].metadata]

\* assessments a risk scorer given to the constructor may return
DoubleAssessments ==
    {[is_anomalous |-> FALSE, risk_score |-> 0, risk_level |-> "low",
      decision |-> "ALLOW", guidance_documents |-> <<>>],
     [is_anomalous |-> TRUE, risk_score |-> 450, risk_level |-> "medium",
      decision |-> "REVIEW", guidance_documents |-> <<GuidanceDoc>>],
     [is_anomalous |-> TRUE, risk_score |-> 700, risk_level |-> "high",
      decision |-> "REVIEW_CAREFULLY", guidance_documents |-> <<>>],
     [is_anomalous |-> TRUE, risk_score |-> 700, risk_level |-> "high",
      decision |-> "BLOCK", guidance_documents |-> <<GuidanceDoc>>],
     [is_anomalous |-> TRUE, risk_score |-> 900, risk_level |-> "critical",
      decision |-> "BLOCK", guidance_documents |-> <<>>]}

(***************************************************************************)
(* AgentOrchestrator.process_query                                         *)
(* The four agents are constructor arguments.  args.agents tells which the *)
(* orchestrator holds: "default", the singletons of the four modules, or   *)
(* "doubles", objects given to the constructor, whose methods return any   *)
(* result of the agents' result sets or raise.                             *)
(***************************************************************************)
BlockedResponse ==
    "Your query has been flagged for security concerns and cannot be processed. Please contact support for assistance."

ErrorResponse ==
    "I encountered an error processing your query. Please try again."

Terminal == {"BLOCKED", "COMPLETE", "ERROR"}

error_envelope_keeps_intent(e) ==
    [query |-> "query", session_id |-> locals.session_id,
     response |-> ErrorResponse,
     intent |-> Get(Get(locals, "intent_result", [x |-> 0]), "intent", "general"),
     confidence |-> 0, specialist |-> "general_agent", sources |-> <<>>,
     error |-> e, agent_pipeline |-> "ERROR"]

\* the dict returned by the except branch of process_query
error_envelope(e) ==
    [query |-> "query", session_id |-> locals.session_id,
     response |-> ErrorResponse, intent |-> "general", confidence |-> 0,
     specialist |-> "general_agent", sources |-> <<>>,
     error |-> e, agent_pipeline |-> "ERROR"]

is_block_by_level(anomaly_result) ==
    Get(anomaly_result, "risk_level", "low") = "critical"

is_block_on_review(anomaly_result) ==
    Get(anomaly_result, "decision", "ALLOW") \in {"BLOCK", "REVIEW"}

\* if anomaly_decision == "BLOCK"
is_block(anomaly_result) == Get(anomaly_result, "decision", "ALLOW") = "BLOCK"

guidance_search_n5 ==
    [query |-> "rewritten", n_results |-> 5, user_id |-> args.user_id,
     doc_type |-> "system"]

\* the arguments of the guidance search of an anomaly_concern; its query
\* is f"fraud detection account security prevention unauthorized access
\* {query}", here "rewritten"
guidance_search_args ==
    [query |-> "rewritten", n_results |-> 3, user_id |-> args.user_id,
     doc_type |-> "system"]

\* the arguments of the retrieval of any other intent
retrieval_args ==
    [query |-> "query", n_results |-> 5, user_id |-> args.user_id,
     doc_type |-> "system"]

\* the arguments process_query gives the agent method it calls
CallArgs(method) ==
    IF method # "retrieve_and_rank" THEN [query |-> "query"]
    ELSE IF Get(locals.intent_result, "intent", "general") = "anomaly_concern"
    THEN guidance_search_args
    ELSE retrieval_args

Raise_and_retry(method) ==
    /\ args.agents = "doubles"
    /\ Len(calls) < 6
    /\ calls' = Append(calls, method)
    /\ call_args' = Append(call_args, CallArgs(method))
    /\ UNCHANGED <<op, args, ret, pc, locals>>

\* an agent method raises: the except branch of process_query
Raise(method) ==
    /\ args.agents = "doubles"
    /\ calls' = Append(calls, method)
    /\ call_args' = Append(call_args, CallArgs(method))
    /\ locals' = locals @@ [e |-> method]
    /\ ret' = <<error_envelope(method)>>
    /\ pc' = "ERROR"
    /\ UNCHANGED <<op, args>>

\* the vector index as it answers the query of one retrieve_and_rank call,
\* and whether the embedding or the index call of that call raises

\* AGENT 1: intent_classifier_agent.classify
ClassifyStep ==
    /\ op = "process_query" /\ pc = "start"
    /\ UNCHANGED <<http, waiting>>
    /\ \/ /\ \/ \E response \in LlmResponses :
                    locals' = locals @@
                        [intent_result |-> classify(args.query, response, "none")]
             \/ /\ args.agents = "doubles"
                /\ \E intent_result \in DoubleIntentResults :
                      locals' = locals @@ [intent_result |-> intent_result]
          /\ calls' = Append(calls, "classify")
          /\ call_args' = Append(call_args, CallArgs("classify"))
          /\ pc' = "classified"
          /\ UNCHANGED <<op, args, ret>>
       \/ Raise("classify")

\* AGENT 2: the guidance search for an anomaly_concern, analyze otherwise
AssessStep ==
    /\ op = "process_query" /\ pc = "classified"
    /\ UNCHANGED <<http, waiting>>
    /\ LET intent == Get(locals.intent_result, "intent", "general")
           intent_confidence == Get(locals.intent_result, "confidence", 0)
       IN  IF intent = "anomaly_concern"
           THEN \/ /\ \E b \in RagBehaviours :
                         LET guidance_search ==
                                 retrieve_and_rank(b[1], guidance_search_args.n_results,
                                     guidance_search_args.user_id,
                                     guidance_search_args.doc_type, b[2])
                             guidance_documents ==
                                 IF Get(guidance_search, "success", FALSE)
                                 THEN Get(guidance_search, "documents", <<>>)
                                 ELSE <<>>
                         IN  locals' = locals @@
                                 [guidance_search |-> guidance_search,
                                  anomaly_result |->
                                      [is_anomalous |-> TRUE, risk_score |-> 500,
                                       confidence_score |-> intent_confidence,
                                       risk_level |-> "medium", anomaly_count |-> 1,
                                       risk_components |-> {"user_concern"},
                                       decision |-> "REVIEW",
                                       guidance_documents |-> guidance_documents]]
                   /\ calls' = Append(calls, "retrieve_and_rank")
                   /\ call_args' = Append(call_args, CallArgs("retrieve_and_rank"))
                   /\ pc' = "assessed"
                   /\ UNCHANGED <<op, args, ret>>
                \/ Raise("retrieve_and_rank")
           ELSE \/ /\ \/ locals' = locals @@
                             [anomaly_result |-> analyze(args.query, <<>>, "none", <<>>)]
                      \/ /\ args.agents = "doubles"
                         /\ \E anomaly_result \in DoubleAssessments :
                               locals' = locals @@ [anomaly_result |-> anomaly_result]
                   /\ calls' = Append(calls, "analyze")
                   /\ call_args' = Append(call_args, CallArgs("analyze"))
                   /\ pc' = "assessed"
                   /\ UNCHANGED <<op, args, ret>>
                \/ Raise("analyze")

\* DECISION: BLOCK
BlockStep ==
    /\ op = "process_query" /\ pc = "assessed"
    /\ UNCHANGED <<http, waiting>>
    /\ is_block(locals.anomaly_result)
    /\ ret' = <<[query |-> "query", session_id |-> locals.session_id,
                 response |-> BlockedResponse,
                 intent |-> Get(locals.intent_result, "intent", "general"),
                 confidence |-> Get(locals.intent_result, "confidence", 0),
                 specialist |-> Get(locals.intent_result, "specialist", "general_agent"),
                 sources |-> <<>>,
                 anomaly_info |->
                     [blocked |-> TRUE,
                      risk_score |-> Get(locals.anomaly_result, "risk_score", 0),
                      risk_level |-> Get(locals.anomaly_result, "risk_level", "low")],
                 agent_pipeline |-> "Intent -> Anomaly -> BLOCKED"]>>
    /\ pc' = "BLOCKED"
    /\ UNCHANGED <<op, args, locals, calls, call_args>>

\* AGENT 3: retrieve_and_rank, or the guidance documents of an anomaly_concern
RetrieveStep ==
    /\ op = "process_query" /\ pc = "assessed"
    /\ UNCHANGED <<http, waiting>>
    /\ ~is_block(locals.anomaly_result)
    /\ IF Get(locals.intent_result, "intent", "general") = "anomaly_concern"
       THEN /\ LET rag_documents ==
                       Get(locals.anomaly_result, "guidance_documents", <<>>)
               IN  locals' = locals @@
                       [rag_result |->
                            [success |-> TRUE, documents |-> rag_documents,
                             confidence |->
                                 Get(locals.intent_result, "confidence", 0),
                             retrieval_stats |->
                                 [retrieved |-> Len(rag_documents),
                                  after_filtering |-> Len(rag_documents),
                                  returned |-> Len(rag_documents),
                                  avg_similarity |-> 850]]]
            /\ pc' = "retrieved"
            /\ UNCHANGED <<op, args, ret, calls, call_args>>
       ELSE \/ /\ \E b \in RagBehaviours :
                     locals' = locals @@
                         [rag_result |->
                              retrieve_and_rank(b[1], retrieval_args.n_results,
                                  retrieval_args.user_id, retrieval_args.doc_type,
                                  b[2])]
               /\ calls' = Append(calls, "retrieve_and_rank")
               /\ call_args' = Append(call_args, CallArgs("retrieve_and_rank"))
               /\ pc' = "retrieved"
               /\ UNCHANGED <<op, args, ret>>
            \/ Raise("retrieve_and_rank")

\* rag_documents = rag_result.get("documents", []) if rag_result.get("success") else []
RagDocuments ==
    IF Get(locals.rag_result, "success", FALSE)
    THEN Get(locals.rag_result, "documents", <<>>)
    ELSE <<>>

\* what the metrics read of a pipeline query and its texts
PipelineReads ==
    {r \in Reads : r.response_in_context = 2 /\ r.semantic.kind = "unavailable"}

\* AGENT 4: synthesize, and the final result
SynthesizeStep ==
    /\ op = "process_query" /\ pc = "retrieved"
    /\ UNCHANGED <<http, waiting>>
    /\ \/ /\ \E generation \in {"ok", "raises"}, reads \in PipelineReads :
                \E response_result \in
                        {synthesize(locals.intent_result, locals.anomaly_result,
                                    RagDocuments, generation, reads)} :
                    /\ locals' = locals @@ [response_result |-> response_result]
                    /\ ret' =
                        <<[query |-> "query", session_id |-> locals.session_id,
                           response |-> Get(response_result, "response", ""),
                           intent |-> Get(locals.intent_result, "intent", "general"),
                           confidence |-> Get(locals.intent_result, "confidence", 0),
                           specialist |->
                               Get(locals.intent_result, "specialist", "general_agent"),
                           sources |-> RagDocuments,
                           agent_pipeline |-> "Intent -> Anomaly -> RAG -> Synthesis",
                           anomaly_info |->
                               [is_anomalous |->
                                    Get(locals.anomaly_result, "is_anomalous", FALSE),
                                risk_score |->
                                    Get(locals.anomaly_result, "risk_score", 0),
                                risk_level |->
                                    Get(locals.anomaly_result, "risk_level", "low"),
                                decision |->
                                    Get(locals.anomaly_result, "decision", "ALLOW"),
                                guidance_used |->
                                    Len(Get(locals.anomaly_result,
                                            "guidance_documents", <<>>)) > 0],
                           retrieval_info |->
                               [documents_retrieved |-> Len(RagDocuments),
                                retrieval_confidence |->
                                    Get(locals.rag_result, "confidence", 0)],
                           synthesis_info |->
                               [strategy |->
                                    Get(response_result, "response_strategy", "unknown"),
                                context_sources |->
                                    Get(response_result, "context_used", <<>>)]]>>
          /\ calls' = Append(calls, "synthesize")
          /\ call_args' = Append(call_args, CallArgs("synthesize"))
          /\ pc' = "COMPLETE"
          /\ UNCHANGED <<op, args>>
       \/ Raise("synthesize")

(***************************************************************************)
(* The pipeline: one process_query call on the orchestrator, on every      *)
(* query, user and collaborator behaviour of the bounded sets.             *)
(***************************************************************************)
\* what the rules of the classifier read of a query
IntentFeatures ==
    {[matches |-> NoMatches, length |-> 40, structured |-> TRUE],
     [matches |-> [NoMatches EXCEPT !["warranty"] = 2], length |-> 40,
      structured |-> TRUE],
     [matches |-> [NoMatches EXCEPT !["anomaly_concern"] = 3], length |-> 40,
      structured |-> FALSE]}

\* what the detectors read of it
DetectorFeatures ==
    {[word_count |-> 8, keywords |-> 0, patterns |-> 0, encoding |-> FALSE],
     [word_count |-> 8, keywords |-> 0, patterns |-> 0, encoding |-> TRUE],
     [word_count |-> 8, keywords |-> 0, patterns |-> 1, encoding |-> FALSE],
     [word_count |-> 8, keywords |-> MaxKeywords, patterns |-> 2, encoding |-> FALSE],
     [word_count |-> max_words + 1, keywords |-> 0, patterns |-> 0,
      encoding |-> FALSE]}

PipelineQueries == {i @@ d : i \in IntentFeatures, d \in DetectorFeatures}

ProcessQueryArgs ==
    [query : PipelineQueries, user_id : {None, "A"}, agents : {"default", "doubles"}]

Init ==
    /\ op = "process_query"
    /\ args \in ProcessQueryArgs
    /\ ret = <<>>
    /\ pc = "start"
    /\ locals = [session_id |-> "s1"]
    /\ calls = <<>>
    /\ call_args = <<>>
    /\ http = <<>>
    /\ waiting = <<>>

Next == ClassifyStep \/ AssessStep \/ BlockStep \/ RetrieveStep \/ SynthesizeStep

\* POST /api/v1/query with a valid API key, the request's query a string:
\* the handler calls process_query(request.query, session_id), with no
\* user_id, on the singleton orchestrator (the default agents), and returns
\* its result, which is sent with status 200.  (Its except branch, status
\* 500, needs process_query to raise.)
QueryEndpointReturn ==
    /\ op = "process_query" /\ pc \in Terminal
    /\ args.user_id = None /\ args.agents = "default"
    /\ http = <<>>
    /\ http' = <<[status_code |-> 200, json |-> ret[1]]>>
    /\ UNCHANGED <<op, args, ret, pc, locals, calls, call_args, waiting>>

NextApi == Next \/ QueryEndpointReturn

SpecApi == Init /\ [][NextApi]_vars

Spec == Init /\ [][Next]_vars

\* process_query runs to its return statement: its steps are the statements
\* of one synchronous call, and every collaborator call returns or raises
FairSpec == Spec /\ WF_vars(Next)

(***************************************************************************)
(* Two process_query calls in progress on the singleton orchestrator, on   *)
(* two threads.  One thread runs at a time; the variables args .. call_args *)
(* are those of the call that runs, waiting holds those of the other.  The *)
(* orchestrator's own attributes are the four agent references assigned in *)
(* __init__ (args.agents, the same for both calls); the agents of the      *)
(* pipeline assign no attribute outside their __init__, so an agent call   *)
(* is one step.                                                            *)
(***************************************************************************)
\* the parameters and local variables of the call that runs
frame ==
    [args |-> args, ret |-> ret, pc |-> pc, locals |-> locals,
     calls |-> calls, call_args |-> call_args]

resumed_locals_intent_on_self(saved, current) ==
    IF "intent_result" \in DOMAIN current
    THEN [k \in DOMAIN saved \cup {"intent_result"} |->
             IF k = "intent_result" THEN current.intent_result ELSE saved[k]]
    ELSE saved

\* the local variables a call finds when its thread resumes: intent_result,
\* anomaly_result, rag_result, ... are names of the function's frame, none
\* is an attribute of self, so they are as the thread left them (saved),
\* whatever the call that ran meanwhile (current) assigned to its own
resumed_locals(saved, current) == saved

\* the interpreter switches to the other thread, if its call has not returned
ContextSwitch ==
    /\ op = "process_query" /\ waiting # <<>>
    /\ waiting[1].pc \notin Terminal
    /\ args' = waiting[1].args
    /\ ret' = waiting[1].ret
    /\ pc' = waiting[1].pc
    /\ locals' = resumed_locals(waiting[1].locals, locals)
    /\ calls' = waiting[1].calls
    /\ call_args' = waiting[1].call_args
    /\ waiting' = <<frame>>
    /\ UNCHANGED <<op, http>>

\* the queries of the two calls: the rules take them for an anomaly concern
\* (classify then makes no call of its own), one has an encoded character
ConcurrentQueries ==
    {q \in PipelineQueries :
        /\ q.keywords = 0 /\ q.patterns = 0 /\ q.word_count = 8
        /\ q.matches["anomaly_concern"] > 0}

ConcurrentArgs ==
    {a \in ProcessQueryArgs : a.query \in ConcurrentQueries /\ a.user_id = None}

InitConcurrent ==
    /\ op = "process_query"
    /\ args \in ConcurrentArgs
    /\ ret = <<>>
    /\ pc = "start"
    /\ locals = [session_id |-> "s1"]
    /\ calls = <<>>
    /\ call_args = <<>>
    /\ http = <<>>
    /\ \E other \in ConcurrentArgs :
          /\ other.agents = args.agents
          /\ waiting = <<[args |-> other, ret |-> <<>>, pc |-> "start",
                          locals |-> [session_id |-> "s2"],
                          calls |-> <<>>, call_args |-> <<>>]>>

NextConcurrent == Next \/ ContextSwitch

SpecConcurrent == InitConcurrent /\ [][NextConcurrent]_vars

Count(method) == Cardinality({i \in 1..Len(calls) : calls[i] = method})

Assigned(name) == name \in DOMAIN locals

\* C1: process_query never raises: every call ends with an envelope
\* returned, and when an agent method raises the envelope is the ERROR one:
\* the apology, intent general, confidence 0.0, no sources, the error caught.
C1_ErrorEnvelope ==
    /\ pc \in Terminal <=> ret # <<>>
    /\ Assigned("e") =>
          /\ pc = "ERROR"
          /\ calls[Len(calls)] = locals.e
          /\ ret[1].agent_pipeline = "ERROR"
          /\ ret[1].response = ErrorResponse
          /\ ret[1].intent = "general"
          /\ ret[1].confidence = 0
          /\ ret[1].sources = <<>>
          /\ ret[1].error = locals.e
    /\ pc = "ERROR" => Assigned("e")

\* the synthesizer raises, after a query was classified warranty
C1_Witness ==
    /\ pc = "ERROR"
    /\ locals.e = "synthesize"
    /\ locals.intent_result.intent = "warranty"
    /\ ret[1].intent = "general"

DecisionIsBlock ==
    /\ Assigned("anomaly_result")
    /\ Get(locals.anomaly_result, "decision", "ALLOW") = "BLOCK"

\* the only step from a BLOCK decision is the one that ends the request
BlockedNext == (DecisionIsBlock /\ pc = "assessed") => (pc' = "BLOCKED")

\* C2: once the decision the orchestrator reads is BLOCK, the request ends
\* BLOCKED with the refusal text and no sources, and retrieve_and_rank and
\* synthesize are not invoked.
C2_BlockShortCircuit ==
    /\ [](DecisionIsBlock =>
            /\ pc \in {"assessed", "BLOCKED"}
            /\ calls = <<"classify", "analyze">>
            /\ pc = "BLOCKED" =>
                  /\ ret[1].response = BlockedResponse
                  /\ ret[1].sources = <<>>
                  /\ ret[1].agent_pipeline = "Intent -> Anomaly -> BLOCKED")
    /\ [][BlockedNext]_vars
    /\ (DecisionIsBlock ~> pc = "BLOCKED")
    /\ [](pc = "BLOCKED" => DecisionIsBlock)

\* a risk level below critical, with the decision BLOCK
C2_Witness ==
    /\ pc = "BLOCKED"
    /\ locals.anomaly_result.risk_level = "high"
    /\ locals.anomaly_result.guidance_documents # <<>>
    /\ ret[1].sources = <<>>

PipelineOf(stage) ==
    CASE stage = "BLOCKED" -> "Intent -> Anomaly -> BLOCKED"
      [] stage = "COMPLETE" -> "Intent -> Anomaly -> RAG -> Synthesis"
      [] stage = "ERROR" -> "ERROR"

\* no step leaves a terminal stage
StaysTerminal ==
    pc \in Terminal =>
        (pc' = pc /\ calls' = calls /\ call_args' = call_args /\ ret' = ret)

\* C3: the classifier is invoked first and exactly once; synthesize is
\* invoked at most once, last, and after the risk decision is established;
\* the request ends in exactly one of BLOCKED, COMPLETE, ERROR, after which no
\* agent method is invoked.
C3_StageOrder ==
    /\ [](calls # <<>> => calls[1] = "classify")
    /\ [](Count("classify") <= 1 /\ Count("synthesize") <= 1)
    /\ [](pc \in Terminal => Count("classify") = 1)
    /\ [](\A i \in 1..Len(calls) :
            calls[i] = "synthesize" =>
                /\ i = Len(calls)
                /\ Assigned("anomaly_result")
                /\ "decision" \in DOMAIN locals.anomaly_result)
    /\ <>(pc \in Terminal)
    /\ [](pc \in Terminal => ret[1].agent_pipeline = PipelineOf(pc))
    /\ [](pc \notin Terminal => ret = <<>>)
    /\ [][StaysTerminal]_vars

C3_Witness ==
    /\ pc = "COMPLETE"
    /\ calls = <<"classify", "analyze", "retrieve_and_rank", "synthesize">>

\* the retrieve_and_rank call of the orchestrator met a failing embedding
\* or index call
RetrievalFaulted(name) ==
    /\ Assigned(name)
    /\ "error" \in DOMAIN locals[name]

\* C9: when the embedding call or the index query raises, retrieve_and_rank
\* returns success = false and no documents, with the error; the
\* orchestrator goes on with an empty document list, invokes the synthesizer
\* and ends COMPLETE (ERROR only if the synthesizer itself raises).
C9_RetrievalFailureRecovered ==
    /\ [](\A name \in {"rag_result", "guidance_search"} :
            RetrievalFaulted(name) =>
                /\ locals[name].success = FALSE
                /\ locals[name].documents = <<>>
                /\ locals[name].error \in RagFaults
                /\ Assigned("e") => locals.e = "synthesize")
    /\ [](RetrievalFaulted("guidance_search") =>
            locals.anomaly_result.guidance_documents = <<>>)
    /\ []((RetrievalFaulted("rag_result") \/ RetrievalFaulted("guidance_search"))
          /\ Assigned("rag_result") => RagDocuments = <<>>)
    /\ []((RetrievalFaulted("rag_result") \/ RetrievalFaulted("guidance_search"))
          /\ pc = "COMPLETE" =>
              /\ calls[Len(calls)] = "synthesize"
              /\ ret[1].sources = <<>>
              /\ ret[1].retrieval_info.documents_retrieved = 0)
    /\ (RetrievalFaulted("rag_result") \/ RetrievalFaulted("guidance_search"))
          ~> /\ "synthesize" \in {calls[i] : i \in 1..Len(calls)}
             /\ pc = "COMPLETE" \/ (pc = "ERROR" /\ locals.e = "synthesize")

C9_Witness ==
    /\ pc = "COMPLETE"
    /\ args.agents = "default"
    /\ RetrievalFaulted("rag_result")
    /\ locals.rag_result.error = "embedding"
    /\ ret[1].sources = <<>>

\* C15: when the keyword detector and the pattern detector both fire on a
\* query that is not classified anomaly_concern, the assessment of the risk
\* scorer has risk_level high or critical and decision BLOCK, and the request
\* ends BLOCKED with the refusal text and no documents.
C15_KeywordAndPatternBlock ==
    (/\ args.agents = "default"
     /\ Assigned("anomaly_result")
     /\ Get(locals.intent_result, "intent", "general") # "anomaly_concern"
     /\ check_malicious_keywords(args.query).found
     /\ check_suspicious_patterns(args.query).found) =>
        /\ locals.anomaly_result.risk_level \in {"high", "critical"}
        /\ locals.anomaly_result.decision = "BLOCK"
        /\ pc \in Terminal =>
              /\ pc = "BLOCKED"
              /\ ret[1].response = BlockedResponse
              /\ ret[1].sources = <<>>

\* the classified intent is anomaly_concern
IsConcern ==
    /\ Assigned("intent_result")
    /\ Get(locals.intent_result, "intent", "general") = "anomaly_concern"

\* C16: when the classified intent is anomaly_concern, analyze is not
\* invoked, the assessment is the canned one (anomalous, 0.5, medium,
\* REVIEW), retrieve_and_rank is invoked exactly once in the request (the
\* rewritten query, doc_type system, n_results 3), and the documents of that
\* call are the retrieval result given to the synthesizer.
C16_ConcernPath ==
    IsConcern =>
        /\ Count("analyze") = 0
        /\ Count("retrieve_and_rank") <= 1
        /\ \A i \in 1..Len(calls) :
              calls[i] = "retrieve_and_rank" =>
                  call_args[i] = [query |-> "rewritten", n_results |-> 3,
                                  user_id |-> args.user_id, doc_type |-> "system"]
        /\ Assigned("anomaly_result") =>
              /\ Count("retrieve_and_rank") = 1
              /\ locals.anomaly_result.is_anomalous
              /\ locals.anomaly_result.risk_score = 500
              /\ locals.anomaly_result.risk_level = "medium"
              /\ locals.anomaly_result.decision = "REVIEW"
              /\ locals.anomaly_result.guidance_documents =
                     (IF locals.guidance_search.success
                      THEN locals.guidance_search.documents ELSE <<>>)
        /\ Assigned("rag_result") =>
              RagDocuments = locals.anomaly_result.guidance_documents
        /\ pc = "COMPLETE" =>
              /\ calls = <<"classify", "retrieve_and_rank", "synthesize">>
              /\ ret[1].sources = locals.anomaly_result.guidance_documents

C16_Witness ==
    /\ IsConcern
    /\ pc = "COMPLETE"
    /\ locals.guidance_search.success
    /\ locals.guidance_search.documents # <<>>
    /\ ret[1].sources = locals.guidance_search.documents

\* C18: the response to a POST to the query endpoint with a valid API key
\* has status 200 and a body with an answer field and a session_id field,
\* whatever the terminal outcome of the pipeline.
C18_EndpointAnswerAndSession ==
    http # <<>> =>
        /\ http[1].status_code = 200
        /\ "answer" \in DOMAIN http[1].json
        /\ "session_id" \in DOMAIN http[1].json

\* whether the request called the generation service so far: classify does
\* when the rules' confidence is under confidence_high (its result then
\* reads "hybrid"), synthesize does in _generate_response
ModelCallMade ==
    \/ /\ "intent_result" \in DOMAIN locals
       /\ Get(locals.intent_result, "classification_method", "rules") = "hybrid"
    \/ Count("synthesize") > 0

\* C19: a request that ends BLOCKED made no call to the generation service,
\* classification included, and fetched no document: no retrieve_and_rank
\* call and no synthesize call were made, and classify did not ask the model.
C19_BlockedMakesNoModelCall ==
    pc = "BLOCKED" =>
        /\ ~ModelCallMade
        /\ Count("retrieve_and_rank") = 0

\* C20: when analyze computes decision REVIEW it calls the retrieval engine
\* exactly once, with doc_type system and n_results 3, and the assessment it
\* returns has decision REVIEW and that call's documents as
\* guidance_documents; when it computes any other decision it makes no
\* retrieval call and returns empty guidance_documents.
C20_GuidanceRetrieval ==
    (Returned("analyze") /\ ~analyze_raises(args.user_history, args.fault)) =>
        IF risk_computation(args.query, args.user_history).decision = "REVIEW"
        THEN /\ Count("retrieve_and_rank") = 1
             /\ call_args[1].doc_type = "system"
             /\ call_args[1].n_results = 3
             /\ ret[1].decision = "REVIEW"
             /\ "guidance_documents" \in DOMAIN ret[1]
             /\ \E b \in RagBehaviours :
                   ret[1].guidance_documents = search_relevant_documents(b)
        ELSE /\ Count("retrieve_and_rank") = 0
             /\ Get(ret[1], "guidance_documents", <<>>) = <<>>

Sessions == {"s1", "s2"}

\* the parameters and local variables of the call of session s
FrameOf(s) == IF locals.session_id = s THEN frame ELSE waiting[1]

\* a step changes the state of the call of session s only if that call is
\* the one that runs, before the step and after it
OwnStep ==
    \A s \in Sessions :
        FrameOf(s)' # FrameOf(s) => (locals.session_id = s /\ locals'.session_id = s)

Malformed(response) ==
    \/ response.kind = "not_json"
    \/ /\ response.kind = "json"
       /\ response.intent # "missing"
       /\ response.intent \notin DOMAIN intents

\* C22: on a malformed response the model step returns intent general with
\* confidence 0.5, whatever confidence the response carried.
C22_MalformedFallsBack ==
    (Returned("llm_classify") /\ Malformed(args.response)) =>
        /\ ret[1].intent = "general"
        /\ ret[1].confidence = Pct(50)

\* the recency value _calculate_combined_score reads of a document's
\* factors: ranking_factors.get("recency", 0.0), thousandths
RecencyUsed(d) == Get(d.ranking_factors, "recency", 0)

\* C23: for a returned document whose metadata has no ingested_at, or one
\* that cannot be parsed, the recency factor used in combined_score is 1.0;
\* otherwise it is max(1 - 0.01 * days_since_ingested, 0.5).
C23_RecencyDefault ==
    Returned("retrieve_and_rank") =>
        \A d \in Docs(ret[1]) :
            LET at == d.metadata.ingested_at
            IN  IF at.kind \in {"missing", "unparseable"}
                THEN RecencyUsed(d) = 1000
                ELSE RecencyUsed(d) = Max(1000 - 10 * at.days_old, 500)

\* C24: every document retrieve_and_rank returns has its similarity_score in
\* [0.5, 1] and its combined_score in [0, 1], whatever the distance, length,
\* doc_type and ingested_at of the chunk, a timestamp in the future included.
C24_ScoreRanges ==
    Returned("retrieve_and_rank") =>
        \A d \in Docs(ret[1]) :
            /\ d.similarity_score >= 500 /\ d.similarity_score <= 1000
            /\ d.combined_score >= 0 /\ d.combined_score <= 1000

\* the contents of the entries of a context list that carry the tag
Tagged(context_docs, tag) ==
    LET entries == SelectSeq(context_docs, LAMBDA c : c.type = tag)
    IN  [i \in 1..Len(entries) |-> entries[i].content]

\* the documents of a list, in its order
DocumentsOf(documents) == [i \in 1..Len(documents) |-> documents[i].document]

\* C25: the context list holds guidance entries only under the strategies
\* ESCALATION and ANOMALY_REVIEW; every entry tagged guidance comes before
\* every entry tagged retrieved; and each group keeps the order of the list
\* it comes from.
C25_ContextOrder ==
    Returned("prepare_context_documents") =>
        LET context_docs == ret[1]
            guidance_documents == Get(args.anomaly_info, "guidance_documents", <<>>)
        IN  /\ Tagged(context_docs, "guidance") # <<>> =>
                  args.strategy.type \in {"ESCALATION", "ANOMALY_REVIEW"}
            /\ \A i, j \in 1..Len(context_docs) :
                  (context_docs[i].type = "guidance"
                   /\ context_docs[j].type = "retrieved") => i < j
            /\ \A i \in 1..Len(context_docs) :
                  context_docs[i].type \in {"guidance", "retrieved"}
            /\ Tagged(context_docs, "retrieved") = DocumentsOf(args.rag_documents)
            /\ Tagged(context_docs, "guidance") \in
                  {<<>>, DocumentsOf(guidance_documents)}

\* two guidance documents, then two retrieved ones, each pair in its order
C25_Witness ==
    /\ Returned("prepare_context_documents")
    /\ args.strategy.type = "ANOMALY_REVIEW"
    /\ Tagged(ret[1], "guidance") = <<"d1", "d2">>
    /\ Tagged(ret[1], "retrieved") = <<"d2", "d3">>
    /\ Len(ret[1]) = 4

C27_ConcernNeverBlocked ==
    /\ [](IsConcern =>
            /\ pc # "BLOCKED"
            /\ Count("analyze") = 0
            /\ Assigned("anomaly_result") =>
                  /\ locals.anomaly_result.decision = "REVIEW"
                  /\ ~is_block(locals.anomaly_result)
            /\ pc = "COMPLETE" => Count("synthesize") = 1
            /\ pc \in Terminal => pc \in {"COMPLETE", "ERROR"})
    \* the request ends (and its intent, once assigned, does not change)
    /\ <>(pc \in Terminal)

\* a concern whose query holds malicious keywords and suspicious patterns
\* is answered by the synthesizer
C27_Witness ==
    /\ IsConcern
    /\ args.agents = "default"
    /\ args.query.keywords = MaxKeywords /\ args.query.patterns = 2
    /\ pc = "COMPLETE"
    /\ Count("synthesize") = 1

\* C28: for a request not classified anomaly_concern on which a detector
\* fires and whose computed risk level is medium, the assessment the
\* orchestrator receives from the risk scorer has is_anomalous true,
\* anomaly_count at least 1 and decision REVIEW, and the synthesizer takes
\* the ANOMALY_REVIEW strategy.
C28_MediumRiskReviewed ==
    (/\ args.agents = "default"
     /\ Assigned("intent_result") /\ ~IsConcern
     /\ Assigned("anomaly_result")
     /\ risk_computation(args.query, <<>>).factor_count >= 1
     /\ risk_computation(args.query, <<>>).risk_level = "medium")
    =>  /\ Get(locals.anomaly_result, "is_anomalous", FALSE)
        /\ Get(locals.anomaly_result, "anomaly_count", 0) >= 1
        /\ Get(locals.anomaly_result, "decision", "ALLOW") = "REVIEW"
        /\ pc = "COMPLETE" => ret[1].synthesis_info.strategy = "ANOMALY_REVIEW"

\* C29: when the model step of classify fails (the generation call raises,
\* or its output is no JSON), classify returns the intent and the
\* confidence of the rules' result.
C29_FailedModelKeepsRules ==
    (/\ Returned("classify") /\ args.fault = "none"
     /\ args.response.kind \in {"raises", "not_json"})
    =>  /\ ret[1].intent = rules_based_classify(args.query, "none").intent
        /\ ret[1].confidence = rules_based_classify(args.query, "none").confidence

\* C30: no document is passed twice to the generation context. In every
\* COMPLETE request whose synthesis reached the generation call, the number
\* of context documents handed to it equals the number of distinct
\* documents fetched for the request (guidance documents and retrieved
\* documents together), also on the anomaly_concern path where the
\* guidance documents are reused as the retrieval result.
FetchedDocuments ==
    {Get(locals.anomaly_result, "guidance_documents", <<>>)[i].document :
         i \in 1..Len(Get(locals.anomaly_result, "guidance_documents", <<>>))}
    \cup {RagDocuments[i].document : i \in 1..Len(RagDocuments)}

C30_NoDocumentTwice ==
    (/\ pc = "COMPLETE"
     /\ "rag_documents" \in DOMAIN ret[1].synthesis_info.context_sources)
    => ret[1].synthesis_info.context_sources.rag_documents
           = Cardinality(FetchedDocuments)

=============================================================================
